---- MODULE Spec2Model ----
(***************************************************************************)
(* Model of utils/domainUtils.ts of All-Model-Chat.                        *)
(*                                                                         *)
(* JavaScript values are modelled as follows.                              *)
(*   - An object is a function from the names of the properties it owns    *)
(*     to their values; a property that is absent (undefined) is not in    *)
(*     the DOMAIN.  `delete o.k` removes k from the DOMAIN.                *)
(*   - Objects that can be aliased or mutated in place (sessions,          *)
(*     messages, uploaded files) live in `heap` and are referred to by     *)
(*     object references; arrays are sequences of references.              *)
(*   - Strings that the code inspects (trim, split, startsWith, falsy      *)
(*     test) are sequences of one-character strings, "" being << >>.       *)
(*     Strings that are only compared or copied are TLA+ strings.          *)
(***************************************************************************)
EXTENDS Integers, Sequences, FiniteSets, TLC

VARIABLES
    pc,         \* position of the call under study
    heap,       \* object reference -> object
    sessions,   \* applyImageCachePolicy: the argument (array of session refs)
    returned,   \* applyImageCachePolicy: the returned array
    text,       \* buildContentParts: the text argument
    files,      \* buildContentParts: the files argument (array of file refs)
    tasks,      \* buildContentParts: one async callback of files.map per file
    calls,      \* buildContentParts: the reads and fetches started so far
    result,     \* buildContentParts: state of the returned promise
    messages,   \* generateSessionTitle: the argument
    title,      \* generateSessionTitle: the returned string
    log         \* entries written through logService

vars == <<pc, heap, sessions, returned, text, files, tasks, calls, result,
          messages, title, log>>

policyVars == <<sessions, returned>>
buildVars == <<text, files, tasks, calls, result>>
titleVars == <<messages, title>>

-----------------------------------------------------------------------------
(* Bounds of the explored inputs *)

MaxSessions == 6
MaxMessages == 2
MaxFiles == 2
MaxUploads == 3
MaxTitleMessages == 2

-----------------------------------------------------------------------------
(* JavaScript helpers *)

Has(o, k) == k \in DOMAIN o

\* truthiness of an optional string property: present and not ""
TruthyStr(o, k) == Has(o, k) /\ o[k] # << >>

Without(o, ks) == [k \in (DOMAIN o) \ ks |-> o[k]]

\* `{}`: an object that owns no property
EmptyObject == [k \in {} |-> TRUE]

\* a browser File: it owns no enumerable property of its own, its bytes are
\* reachable only through a FileReader
FileOf(bytes) == [isFile |-> TRUE, bytes |-> bytes]

SUPPORTED_IMAGE_MIME_TYPES == {"image/jpeg", "image/png", "image/webp", "image/gif"}

-----------------------------------------------------------------------------
(* Object references *)

\* a reference is an address: the objects of an argument are laid out by
\* position (session s, message m, file f, counted from 1; 0 for "none") below
\* address 1000, the objects a call creates above it
FileRef(s, m, f) == 100 * s + 10 * m + f
MessageRef(s, m) == FileRef(s, m, 0)
SessionRef(s) == FileRef(s, 0, 0)
SessionIx(o) == (o % 1000) \div 100
MessageIx(o) == (o % 100) \div 10
FileIx(o) == o % 10

\* the references held by an optional array property
Elems(o, k) == IF Has(o, k) THEN {o[k][i] : i \in 1..Len(o[k])} ELSE {}

MessagesOf(h, ss) == UNION {Elems(h[s], "messages") : s \in ss}
FilesOf(h, ms) == UNION {Elems(h[m], "files") : m \in ms}

\* every session, message and file object reachable from an array of sessions
Reachable(h, arr) ==
    LET ss == {arr[i] : i \in 1..Len(arr)}
        ms == MessagesOf(h, ss)
    IN  ss \cup ms \cup FilesOf(h, ms)

\* the content of a session as a value, references followed
FileTree(h, f) == h[f]
MessageTree(h, m) ==
    [k \in DOMAIN h[m] |->
        IF k = "files" THEN [i \in 1..Len(h[m].files) |-> FileTree(h, h[m].files[i])]
        ELSE h[m][k]]
SessionTree(h, s) ==
    [k \in DOMAIN h[s] |->
        IF k = "messages"
        THEN [i \in 1..Len(h[s].messages) |-> MessageTree(h, h[s].messages[i])]
        ELSE h[s][k]]

-----------------------------------------------------------------------------
(* applyImageCachePolicy *)

KeepRecent == 5

\* where JSON.parse puts the object it builds for the input object o
\* (variant: a copy that hands back the input object itself)
CopyRefAliased(o) == o
CopyRef(o) == o + 1000

\* the input object a copy was built from
SourceRef(o) == o % 1000

\* JSON.parse(JSON.stringify(obj)) of one object: arrays are rebuilt over the
\* copies of their elements, strings and booleans are kept, and a File, which
\* owns no enumerable property, is serialised as {}
JsonRoundTrip(obj) ==
    [k \in DOMAIN obj |->
        CASE k \in {"messages", "files"} -> [i \in 1..Len(obj[k]) |-> CopyRef(obj[k][i])]
          [] k = "rawFile" -> EmptyObject
          [] OTHER -> obj[k]]

\* the heap after the deep copy of the objects reachable from arr
DeepCopy(h, arr) ==
    LET reach == Reachable(h, arr)
        fresh == {CopyRef(x) : x \in reach}
    IN  [o \in (DOMAIN h) \cup fresh |->
            IF o \in fresh
            THEN JsonRoundTrip(h[SourceRef(o)])
            ELSE h[o]]

\* body of the innermost forEach
PruneFile(file) ==
    IF file.type \in SUPPORTED_IMAGE_MIME_TYPES
    THEN Without(file, {k \in {"dataUrl", "base64Data"} : TruthyStr(file, k)})
    ELSE file

\* the sessions the for loop visits: index 5 onwards (0-based)
OldSessions(arr) == {arr[i] : i \in (KeepRecent + 1)..Len(arr)}

\* the files the nested forEach visits when the sessions of `olds` are walked
VisitedFiles(h, olds) == FilesOf(h, MessagesOf(h, olds))

\* (the singleton sets bind each intermediate value once it is computed)
ApplyImageCachePolicy ==
    /\ pc = "policy"
    /\ \E copied \in {DeepCopy(heap, sessions)} :
       \E sessionsCopy \in {[i \in 1..Len(sessions) |-> CopyRef(sessions[i])]} :
       \E visited \in {IF Len(sessionsCopy) > KeepRecent
                        THEN VisitedFiles(copied, OldSessions(sessionsCopy))
                        ELSE {}} :
           /\ heap' = [o \in DOMAIN copied |->
                          IF o \in visited THEN PruneFile(copied[o]) ELSE copied[o]]
           /\ returned' = sessionsCopy
           /\ log' = IF Len(sessionsCopy) > KeepRecent
                     THEN Append(log, [level |-> "debug", about |-> "policy"])
                     ELSE log
    /\ pc' = "policyReturned"
    /\ UNCHANGED <<sessions, buildVars, titleVars>>

-----------------------------------------------------------------------------
(* Inputs of applyImageCachePolicy *)

OptionalStr(k, values) == {EmptyObject} \cup {[x \in {k} |-> v] : v \in values}

Merge(a, b) == [k \in (DOMAIN a) \cup (DOMAIN b) |-> IF k \in DOMAIN a THEN a[k] ELSE b[k]]

\* uploaded files as stored in a session: every combination of MIME class,
\* dataUrl (absent, "", set), base64Data (absent, "", set), rawFile (absent, set)
StoredFiles ==
    { Merge([name |-> "pic", type |-> t], Merge(d, Merge(b, r))) :
        t \in {"image/png", "text/plain"},
        d \in OptionalStr("dataUrl", {<< >>, <<"d", "a", "t", "a", ":", ",", "Q">>}),
        b \in OptionalStr("base64Data", {<< >>, <<"Q">>}),
        r \in {EmptyObject, [rawFile |-> FileOf(<<"x">>)]} }

FillerFile ==
    [name |-> "pic", type |-> "image/png",
     dataUrl |-> <<"d", "a", "t", "a", ":", ",", "Q">>, base64Data |-> <<"Q">>]

MessageWith(fs) == [role |-> "user", content |-> <<"h", "i">>, files |-> fs]
MessageNoFiles == [role |-> "model", content |-> <<"o", "k">>]

\* a session of nm messages of nf files each, file r of message q being pf
ProbeSession(nm, nf, q, r, pf) ==
    [messages |->
        [m \in 1..nm |->
            MessageWith([f \in 1..nf |-> IF m = q /\ f = r THEN pf ELSE FillerFile])]]

FillerSessions ==
    { EmptyObject,
      [messages |-> <<MessageNoFiles>>],
      [messages |-> <<MessageWith(<<FillerFile>>), MessageWith(<< >>)>>] }

\* a list of n sessions, most recent first: session p is `probe` (none when
\* p = 0), the others are copies of `fill`
PolicyInput(n, p, probe, fill) == [k \in 1..n |-> IF k = p THEN probe ELSE fill]

\* the heap that holds a list of sessions given as a value
HeapOf(tree) ==
    LET S == 1..Len(tree)
        Msgs(s) == IF Has(tree[s], "messages") THEN tree[s].messages ELSE << >>
        Fls(s, m) == IF Has(Msgs(s)[m], "files") THEN Msgs(s)[m].files ELSE << >>
        refs == {SessionRef(s) : s \in S}
                \cup UNION {{MessageRef(s, m) : m \in 1..Len(Msgs(s))} : s \in S}
                \cup UNION {UNION {{FileRef(s, m, f) : f \in 1..Len(Fls(s, m))} :
                                      m \in 1..Len(Msgs(s))} : s \in S}
    IN  [o \in refs |->
            IF MessageIx(o) = 0
            THEN [k \in DOMAIN tree[SessionIx(o)] |->
                    IF k = "messages"
                    THEN [m \in 1..Len(Msgs(SessionIx(o))) |-> MessageRef(SessionIx(o), m)]
                    ELSE tree[SessionIx(o)][k]]
            ELSE IF FileIx(o) = 0
            THEN [k \in DOMAIN Msgs(SessionIx(o))[MessageIx(o)] |->
                    IF k = "files"
                    THEN [f \in 1..Len(Fls(SessionIx(o), MessageIx(o))) |-> FileRef(SessionIx(o), MessageIx(o), f)]
                    ELSE Msgs(SessionIx(o))[MessageIx(o)][k]]
            ELSE Fls(SessionIx(o), MessageIx(o))[FileIx(o)]]

InitPolicy ==
    /\ pc = "policy"
    /\ \E n \in 0..MaxSessions, fill \in FillerSessions :
       \E nm \in 1..MaxMessages, nf \in 1..MaxFiles, pf \in StoredFiles :
       \E p \in 0..n, q \in 1..nm, r \in 1..nf :
       \E input \in {PolicyInput(n, p, ProbeSession(nm, nf, q, r, pf), fill)} :
        /\ heap = HeapOf(input)
        /\ sessions = [s \in 1..Len(input) |-> SessionRef(s)]
    /\ returned = << >>
    /\ log = << >>
    /\ text = << >> /\ files = << >> /\ tasks = << >> /\ calls = {}
    /\ result = [status |-> "none"]
    /\ messages = << >> /\ title = << >>

NextPolicy == ApplyImageCachePolicy

SpecPolicy == InitPolicy /\ [][NextPolicy]_vars

-----------------------------------------------------------------------------
(* Claims about applyImageCachePolicy *)

Min(a, b) == IF a < b THEN a ELSE b

IsImage(file) == file.type \in SUPPORTED_IMAGE_MIME_TYPES

\* the input files that sit in sessions at 0-based position 5 or later
OldInputFiles == VisitedFiles(heap, OldSessions(sessions))

\* C1: applyImageCachePolicy never mutates its input: across the call the
\* argument array and every object of the heap that existed before the call
\* are unchanged, and no session, message or file object reachable from the
\* returned array is reachable from the argument.
C1_InputNotMutated ==
    [][ pc' = "policyReturned" =>
          /\ sessions' = sessions
          /\ \A o \in DOMAIN heap : o \in DOMAIN heap' /\ heap'[o] = heap[o]
          /\ Reachable(heap', returned') \cap Reachable(heap, sessions) = {} ]_vars

\* C1 witness: the call returned for more than 5 sessions, an old session holds
\* an image file with dataUrl and base64Data, and its copy lost them
C1_Witness ==
    /\ pc = "policyReturned"
    /\ Len(sessions) > KeepRecent
    /\ \E o \in OldInputFiles :
          /\ IsImage(heap[o])
          /\ TruthyStr(heap[o], "dataUrl") /\ TruthyStr(heap[o], "base64Data")
          /\ CopyRef(o) \in Reachable(heap, returned)
          /\ ~Has(heap[CopyRef(o)], "dataUrl") /\ ~Has(heap[CopyRef(o)], "base64Data")

\* C2: the most recent 5 sessions are returned intact: each returned session at
\* 0-based position 0..4 is equal in content to the input session at the same
\* position (so the whole list is, when the input has 5 or fewer sessions).
C2_RecentSessionsEqual ==
    pc = "policyReturned" =>
        /\ Len(returned) = Len(sessions)
        /\ \A i \in 1..Min(KeepRecent, Len(sessions)) :
              SessionTree(heap, returned[i]) = SessionTree(heap, sessions[i])

\* the files of two messages agree on every property other than `ks`
SameFilesExcept(h, m1, m2, ks) ==
    /\ Has(h[m1], "files") = Has(h[m2], "files")
    /\ Has(h[m1], "files") =>
          /\ Len(h[m1].files) = Len(h[m2].files)
          /\ \A j \in 1..Len(h[m1].files) :
                LET a == h[h[m1].files[j]]
                    b == h[h[m2].files[j]]
                IN  IF IsImage(b)
                    THEN Without(a, ks) = Without(b, ks)
                    ELSE a = b

\* C3: image data is stripped from older sessions and nothing else changes: in
\* every returned session at 0-based position 5 or later no image file carries
\* a (non-empty) dataUrl or base64Data, while the number and order of sessions,
\* messages and files, every other property of those files and every property
\* of the other files are as in the input.
C3_OldSessionsStripped ==
    pc = "policyReturned" =>
        /\ Len(returned) = Len(sessions)
        /\ \A i \in (KeepRecent + 1)..Len(sessions) :
              LET a == heap[returned[i]]
                  b == heap[sessions[i]]
              IN  /\ Has(a, "messages") = Has(b, "messages")
                  /\ Without(a, {"messages"}) = Without(b, {"messages"})
                  /\ Has(b, "messages") =>
                        /\ Len(a.messages) = Len(b.messages)
                        /\ \A m \in 1..Len(b.messages) :
                              /\ Without(heap[a.messages[m]], {"files"})
                                    = Without(heap[b.messages[m]], {"files"})
                              /\ SameFilesExcept(heap, a.messages[m], b.messages[m],
                                                 {"dataUrl", "base64Data"})
        /\ \A f \in VisitedFiles(heap, OldSessions(returned)) :
              IsImage(heap[f]) =>
                  ~TruthyStr(heap[f], "dataUrl") /\ ~TruthyStr(heap[f], "base64Data")

-----------------------------------------------------------------------------
(* fileToBase64 *)

\* only a Blob (a File is one) can be handed to FileReader.readAsDataURL
IsBlob(v) == Has(v, "isFile")

\* base64 text of a byte string (two characters per byte here; "" for no bytes)
RECURSIVE Base64Of(_)
Base64Of(bytes) ==
    IF bytes = << >> THEN << >>
    ELSE <<"6", Head(bytes)>> \o Base64Of(Tail(bytes))

\* reader.result after a successful readAsDataURL: "data:;base64,<base64>"
ReadAsDataURL(file) ==
    <<"d", "a", "t", "a", ":", ";", "b", "a", "s", "e", "6", "4", ",">> \o Base64Of(file.bytes)

\* str.split(sep): the pieces of str between the occurrences of the character sep
RECURSIVE Split(_, _)
Split(str, sep) ==
    IF \A i \in 1..Len(str) : str[i] # sep THEN <<str>>
    ELSE LET i == CHOOSE j \in 1..Len(str) :
                      str[j] = sep /\ \A k \in 1..(j - 1) : str[k] # sep
         IN  <<SubSeq(str, 1, i - 1)>> \o Split(SubSeq(str, i + 1, Len(str)), sep)

\* what reader.onload does: [ok |-> TRUE, value |-> v] for resolve(v),
\* [ok |-> FALSE] for reject
OnLoad(file) ==
    LET parts == Split(ReadAsDataURL(file), ",")
    IN  IF Len(parts) >= 2 /\ parts[2] # << >>
        THEN [ok |-> TRUE, value |-> parts[2]]
        ELSE [ok |-> FALSE]

-----------------------------------------------------------------------------
(* buildContentParts *)

BlobPrefix == <<"b", "l", "o", "b", ":">>

StartsWith(str, prefix) ==
    Len(str) >= Len(prefix) /\ SubSeq(str, 1, Len(prefix)) = prefix

IsSpace(c) == c \in {" ", "\n", "\t"}

\* String.prototype.trim
RECURSIVE Trim(_)
Trim(str) ==
    IF str = << >> THEN << >>
    ELSE IF IsSpace(Head(str)) THEN Trim(Tail(str))
    ELSE IF IsSpace(str[Len(str)]) THEN Trim(SubSeq(str, 1, Len(str) - 1))
    ELSE str

\* where `{ ...file }` puts the shallow copy of the file object o
\* (variant: newFile is the input object itself)
NewFileRefAliased(o) == o
NewFileRef(o) == o + 2000

NoPart == [kind |-> "null"]
InlineDataPart(mimeType, data) == [kind |-> "inlineData", mimeType |-> mimeType, data |-> data]
FileDataPart(mimeType, fileUri) == [kind |-> "fileData", mimeType |-> mimeType, fileUri |-> fileUri]
TextPart(str) == [kind |-> "text", text |-> str]

\* file.isProcessing || file.error || file.uploadState !== 'active'
\* (variant: the uploadState test inverted)
SkipsFileUnlessInactive(file) ==
    \/ Has(file, "isProcessing") /\ file.isProcessing
    \/ TruthyStr(file, "error")
    \/ Has(file, "uploadState") /\ file.uploadState = "active"
SkipsFile(file) ==
    \/ Has(file, "isProcessing") /\ file.isProcessing
    \/ TruthyStr(file, "error")
    \/ ~(Has(file, "uploadState") /\ file.uploadState = "active")

\* SUPPORTED_IMAGE_MIME_TYPES.includes(file.type) && !file.fileUri
\* (variant: the fileUri test dropped)
EmbedsInlineAnyImage(file) == file.type \in SUPPORTED_IMAGE_MIME_TYPES
EmbedsInline(file) ==
    file.type \in SUPPORTED_IMAGE_MIME_TYPES /\ ~TruthyStr(file, "fileUri")

\* !base64Data, base64Data having been read from file.base64Data
\* (variant: converts whether or not base64Data is present)
NeedsConversionAlways(file) == TRUE
NeedsConversion(file) == ~TruthyStr(file, "base64Data")

\* the tail of the image branch: `if (base64Data) { ... }`; return { file: newFile, part }
\* h is the heap, o the input file, data the value of base64Data ([] when undefined)
Finish(h, o, data, err) ==
    IF data # << >>
    THEN [heap |-> [h EXCEPT ![NewFileRef(o)] =
                        Merge([base64Data |-> data], h[NewFileRef(o)])],
          task |-> [pc |-> "done", reading |-> EmptyObject, origin |-> "none",
                    part |-> InlineDataPart(h[o].type, data), err |-> err]]
    ELSE [heap |-> h,
          task |-> [pc |-> "done", reading |-> EmptyObject, origin |-> "none",
                    part |-> NoPart, err |-> err]]

Done(part) ==
    [pc |-> "done", reading |-> EmptyObject, origin |-> "none", part |-> part, err |-> FALSE]

Awaiting(pos, reading, origin) ==
    [pc |-> pos, reading |-> reading, origin |-> origin, part |-> NoPart, err |-> FALSE]

\* the callback of files.map for the file o, run up to its first await (or to its
\* return when it awaits nothing), on the heap h that already holds newFile
Start(h, o) ==
    LET file == h[o]
    IN  IF SkipsFile(file) THEN [heap |-> h, task |-> Done(NoPart)]
        ELSE IF EmbedsInline(file)
        THEN IF NeedsConversion(file)
             THEN IF Has(file, "rawFile")
                  THEN [heap |-> h, task |-> Awaiting("read", file.rawFile, "rawFile")]
                  ELSE IF Has(file, "dataUrl") /\ StartsWith(file.dataUrl, BlobPrefix)
                  THEN [heap |-> h, task |-> Awaiting("fetch", EmptyObject, "blob")]
                  ELSE Finish(h, o, IF Has(file, "base64Data") THEN file.base64Data ELSE << >>,
                              FALSE)
             ELSE Finish(h, o, file.base64Data, FALSE)
        ELSE IF TruthyStr(file, "fileUri")
        THEN [heap |-> h, task |-> Done(FileDataPart(file.type, file.fileUri))]
        ELSE [heap |-> h, task |-> Done(NoPart)]

\* the heap after the callbacks of files 1..n have run their synchronous part
RECURSIVE HeapAfterStart(_, _, _)
HeapAfterStart(h, fs, n) ==
    IF n = 0 THEN h
    ELSE LET before == HeapAfterStart(h, fs, n - 1)
             o == fs[n]
             withCopy == [r \in (DOMAIN before) \cup {NewFileRef(o)} |->
                             IF r = NewFileRef(o) THEN before[o] ELSE before[r]]
         IN  Start(withCopy, o).heap

TaskAfterStart(h, fs, n) ==
    LET before == HeapAfterStart(h, fs, n - 1)
        o == fs[n]
        withCopy == [r \in (DOMAIN before) \cup {NewFileRef(o)} |->
                        IF r = NewFileRef(o) THEN before[o] ELSE before[r]]
    IN  Start(withCopy, o).task

CallOf(i, task) ==
    IF task.pc = "read" THEN {[file |-> i, op |-> "readRawFile"]}
    ELSE IF task.pc = "fetch" THEN {[file |-> i, op |-> "fetch"]}
    ELSE {}

\* the call: files.map(async ...) runs every callback up to its first await
BuildContentParts ==
    /\ pc = "build"
    /\ \E started \in {[i \in 1..Len(files) |-> TaskAfterStart(heap, files, i)]} :
          /\ tasks' = started
          /\ calls' = UNION {CallOf(i, started[i]) : i \in 1..Len(files)}
    /\ heap' = HeapAfterStart(heap, files, Len(files))
    /\ result' = [status |-> "pending"]
    /\ pc' = "awaiting"
    /\ UNCHANGED <<text, files, log, policyVars, titleVars>>

ErrorEntry(origin, name) == [level |-> "error", about |-> origin, name |-> name]

\* a catch block: the error is logged and the callback goes on
\* (variant: the error escapes the callback)
CaughtRethrown(task) == [task EXCEPT !.pc = "threw", !.err = TRUE]
Caught(task) == [task EXCEPT !.pc = "caught", !.err = TRUE]

\* a rejected await inside one of the two try blocks
Fails(i) ==
    /\ \E caught \in {Caught(tasks[i])} :
          IF caught.pc = "caught"
          THEN /\ log' = Append(log, ErrorEntry(tasks[i].origin, heap[files[i]].name))
               /\ \E fin \in {Finish(heap, files[i],
                                     IF Has(heap[files[i]], "base64Data")
                                     THEN heap[files[i]].base64Data ELSE << >>, TRUE)} :
                     /\ heap' = fin.heap
                     /\ tasks' = [tasks EXCEPT ![i] = fin.task]
          ELSE /\ tasks' = [tasks EXCEPT ![i] = caught]
               /\ UNCHANGED <<heap, log>>
    /\ UNCHANGED <<pc, text, files, calls, result, policyVars, titleVars>>

\* fileToBase64: reader.onload fires
ReadLoads(i) ==
    /\ pc = "awaiting" /\ result.status = "pending"
    /\ tasks[i].pc = "read"
    /\ IsBlob(tasks[i].reading)
    /\ \E loaded \in {OnLoad(tasks[i].reading)} :
          IF loaded.ok
          THEN /\ \E fin \in {Finish(heap, files[i], loaded.value, FALSE)} :
                     /\ heap' = fin.heap
                     /\ tasks' = [tasks EXCEPT ![i] = fin.task]
               /\ UNCHANGED <<pc, text, files, calls, result, log, policyVars, titleVars>>
          ELSE Fails(i)

\* fileToBase64: reader.onerror fires, or readAsDataURL throws for a non-Blob
ReadErrors(i) ==
    /\ pc = "awaiting" /\ result.status = "pending"
    /\ tasks[i].pc = "read"
    /\ Fails(i)

FetchResolves(i) ==
    /\ pc = "awaiting" /\ result.status = "pending"
    /\ tasks[i].pc = "fetch"
    /\ tasks' = [tasks EXCEPT ![i].pc = "blob"]
    /\ UNCHANGED <<pc, heap, text, files, calls, result, log, policyVars, titleVars>>

FetchRejects(i) ==
    /\ pc = "awaiting" /\ result.status = "pending"
    /\ tasks[i].pc = "fetch"
    /\ Fails(i)

\* the bytes a blob: URL can stand for
BlobContents == {<< >>, <<"y">>}

\* response.blob() resolves; tempFile is built and fileToBase64(tempFile) called
BlobResolves(i) ==
    /\ pc = "awaiting" /\ result.status = "pending"
    /\ tasks[i].pc = "blob"
    /\ \E bytes \in BlobContents :
          tasks' = [tasks EXCEPT ![i] = Awaiting("read", FileOf(bytes), "blob")]
    /\ calls' = calls \cup {[file |-> i, op |-> "readBlob"]}
    /\ UNCHANGED <<pc, heap, text, files, result, log, policyVars, titleVars>>

BlobRejects(i) ==
    /\ pc = "awaiting" /\ result.status = "pending"
    /\ tasks[i].pc = "blob"
    /\ Fails(i)

\* Promise.all: fulfilled once every promise is, rejected as soon as one is
\* (variant: settles with the first promise, like Promise.race)
AllSettledOrOneIs(ts) == \E i \in 1..Len(ts) : ts[i].pc \in {"done", "threw"}
AllSettled(ts) ==
    \/ \A i \in 1..Len(ts) : ts[i].pc = "done"
    \/ \E i \in 1..Len(ts) : ts[i].pc = "threw"

\* processedResults.map(r => r.part).filter(p => p !== null)
RECURSIVE DataParts(_)
DataParts(ts) ==
    IF ts = << >> THEN << >>
    ELSE (IF Head(ts).part = NoPart THEN << >> ELSE <<Head(ts).part>>) \o DataParts(Tail(ts))

\* lines 104-109
ContentParts(str, dataParts) ==
    (IF Trim(str) # << >> THEN <<TextPart(Trim(str))>> ELSE << >>) \o dataParts

\* the await of Promise.all returns (or throws) and the function finishes
Returns ==
    /\ pc = "awaiting" /\ result.status = "pending"
    /\ AllSettled(tasks)
    /\ result' = IF \E i \in 1..Len(tasks) : tasks[i].pc = "threw"
                 THEN [status |-> "rejected"]
                 ELSE [status |-> "resolved",
                       contentParts |-> ContentParts(text, DataParts(tasks)),
                       enrichedFiles |-> [i \in 1..Len(files) |-> NewFileRef(files[i])]]
    /\ pc' = "buildReturned"
    /\ UNCHANGED <<heap, text, files, tasks, calls, log, policyVars, titleVars>>

-----------------------------------------------------------------------------
(* Inputs of buildContentParts *)

Flag(k, values) == {EmptyObject} \cup {[x \in {k} |-> v] : v \in values}

\* uploaded files as handed to buildContentParts: every combination of
\* readiness, MIME class, fileUri, base64Data, rawFile and dataUrl
UploadedFiles ==
    { Merge([name |-> "pic", type |-> t], Merge(st, Merge(u, Merge(b, Merge(r, d))))) :
        t \in {"image/png", "application/pdf"},
        st \in { [uploadState |-> "active"],
                 [uploadState |-> "active", isProcessing |-> TRUE],
                 [uploadState |-> "active", isProcessing |-> FALSE, error |-> <<"e">>],
                 [uploadState |-> "uploading"],
                 EmptyObject },
        u \in OptionalStr("fileUri", {<< >>, <<"u">>}),
        b \in OptionalStr("base64Data", {<< >>, <<"Q">>}),
        r \in Flag("rawFile", {FileOf(<<"x">>), FileOf(<< >>), EmptyObject}),
        d \in OptionalStr("dataUrl", {<<"d", "a", "t", "a", ":", ",", "Q">>,
                                      <<"b", "l", "o", "b", ":", "y">>}) }

\* a local image that has to be read, and an uploaded document
RawImage ==
    [name |-> "raw", type |-> "image/jpeg", uploadState |-> "active",
     rawFile |-> FileOf(<<"z">>)]
RemoteDoc ==
    [name |-> "doc", type |-> "application/pdf", uploadState |-> "active",
     fileUri |-> <<"v">>]
FillerUploads == {RawImage, RemoteDoc}

\* a list of n files: file p is `probe` (none when p = 0), the others are
\* copies of `fill`
BuildInput(n, p, probe, fill) == [k \in 1..n |-> IF k = p THEN probe ELSE fill]

Texts == {<<" ", "h", "i", "\n">>, <<" ", "\t">>}

InitBuild ==
    /\ pc = "build"
    /\ \E n \in 0..MaxUploads, fill \in FillerUploads, probe \in UploadedFiles :
       \E p \in 0..n :
       \E input \in {BuildInput(n, p, probe, fill)} :
        /\ heap = [o \in {FileRef(0, 0, i) : i \in 1..Len(input)} |-> input[o]]
        /\ files = [i \in 1..Len(input) |-> FileRef(0, 0, i)]
    /\ text \in Texts
    /\ tasks = << >> /\ calls = {}
    /\ result = [status |-> "none"]
    /\ sessions = << >> /\ returned = << >>
    /\ messages = << >> /\ title = << >>
    /\ log = << >>

NextBuild ==
    \/ BuildContentParts
    \/ \E i \in 1..Len(tasks) : ReadLoads(i)
    \/ \E i \in 1..Len(tasks) : ReadErrors(i)
    \/ \E i \in 1..Len(tasks) : FetchResolves(i)
    \/ \E i \in 1..Len(tasks) : FetchRejects(i)
    \/ \E i \in 1..Len(tasks) : BlobResolves(i)
    \/ \E i \in 1..Len(tasks) : BlobRejects(i)
    \/ Returns

SpecBuild == InitBuild /\ [][NextBuild]_vars

-----------------------------------------------------------------------------
(* Claims about buildContentParts *)

InFile(i) == heap[files[i]]
OutFile(i) == heap[NewFileRef(files[i])]

\* a file the callback does not return early for (line 64)
Ready(file) ==
    /\ ~(Has(file, "isProcessing") /\ file.isProcessing)
    /\ ~TruthyStr(file, "error")
    /\ Has(file, "uploadState") /\ file.uploadState = "active"

Contains(seq, x) == \E k \in 1..Len(seq) : seq[k] = x

Called(i, op) == [file |-> i, op |-> op] \in calls

IsBlobUrl(file) == Has(file, "dataUrl") /\ StartsWith(file.dataUrl, BlobPrefix)

\* the conversion of file i was started and produced base64 data
Converted(i) ==
    /\ Called(i, "readRawFile") \/ Called(i, "readBlob")
    /\ tasks[i].pc = "done" /\ ~tasks[i].err

\* C4 (as stated): every input file of a supported image type without fileUri
\* has an inlineData part with its MIME type in contentParts.
C4_EveryLocalImageEmbedded ==
    result.status = "resolved" =>
        \A i \in 1..Len(files) :
            IsImage(InFile(i)) /\ ~TruthyStr(InFile(i), "fileUri") =>
                \E k \in 1..Len(result.contentParts) :
                    /\ result.contentParts[k].kind = "inlineData"
                    /\ result.contentParts[k].mimeType = InFile(i).type

\* C4 (amended): every input file that is active, not processing and without
\* error, of a supported image type, without fileUri, and whose base64 data is
\* present or obtained by a conversion that succeeds, has an inlineData part
\* with its MIME type and that base64 data in contentParts.
C4_ReadyLocalImageEmbedded ==
    result.status = "resolved" =>
        \A i \in 1..Len(files) :
            Ready(InFile(i)) /\ IsImage(InFile(i)) /\ ~TruthyStr(InFile(i), "fileUri") =>
                /\ TruthyStr(InFile(i), "base64Data") =>
                      Contains(result.contentParts,
                               InlineDataPart(InFile(i).type, InFile(i).base64Data))
                /\ ~TruthyStr(InFile(i), "base64Data") /\ Converted(i) =>
                      /\ TruthyStr(OutFile(i), "base64Data")
                      /\ Called(i, "readRawFile") =>
                            OutFile(i).base64Data = Base64Of(InFile(i).rawFile.bytes)
                      /\ Contains(result.contentParts,
                                  InlineDataPart(InFile(i).type, OutFile(i).base64Data))

\* C4 witness: a ready image without base64Data was read from its rawFile and
\* its inlineData part is in the result
C4_Witness ==
    /\ result.status = "resolved"
    /\ \E i \in 1..Len(files) :
          /\ Ready(InFile(i)) /\ IsImage(InFile(i)) /\ ~Has(InFile(i), "fileUri")
          /\ ~Has(InFile(i), "base64Data") /\ Called(i, "readRawFile") /\ Converted(i)
          /\ Contains(result.contentParts,
                      InlineDataPart(InFile(i).type, Base64Of(InFile(i).rawFile.bytes)))

\* C5 (as stated): every input file with a fileUri has a fileData part with its
\* MIME type and fileUri in contentParts, and no inlineData part.
C5_EveryRemoteFileReferenced ==
    result.status = "resolved" =>
        \A i \in 1..Len(files) :
            TruthyStr(InFile(i), "fileUri") =>
                /\ Contains(result.contentParts,
                            FileDataPart(InFile(i).type, InFile(i).fileUri))
                /\ tasks[i].part.kind # "inlineData"

\* C5 (amended): every input file with a fileUri that is active, not processing
\* and without error has a fileData part with its MIME type and fileUri in
\* contentParts, and no inlineData part, whatever else it carries.
C5_ReadyRemoteFileReferenced ==
    result.status = "resolved" =>
        \A i \in 1..Len(files) :
            Ready(InFile(i)) /\ TruthyStr(InFile(i), "fileUri") =>
                /\ Contains(result.contentParts,
                            FileDataPart(InFile(i).type, InFile(i).fileUri))
                /\ tasks[i].part = FileDataPart(InFile(i).type, InFile(i).fileUri)
                /\ ~Called(i, "readRawFile") /\ ~Called(i, "fetch")

\* C5 witness: a ready image with a fileUri that also carries base64Data, a
\* rawFile and a dataUrl is referenced by URI
C5_Witness ==
    /\ result.status = "resolved"
    /\ \E i \in 1..Len(files) :
          /\ Ready(InFile(i)) /\ IsImage(InFile(i)) /\ TruthyStr(InFile(i), "fileUri")
          /\ TruthyStr(InFile(i), "base64Data")
          /\ Has(InFile(i), "rawFile") /\ Has(InFile(i), "dataUrl")
          /\ Contains(result.contentParts,
                      FileDataPart(InFile(i).type, InFile(i).fileUri))

\* C6: buildContentParts does not mutate the file objects it is given: no step
\* of the call changes the argument array or an input file object; the result
\* has one enriched file per input file, in input order, each a new object that
\* differs from its input file at most in base64Data, which it changes only
\* when the input had none.
C6_InputFilesNotMutated ==
    [][ /\ files' = files
        /\ \A i \in 1..Len(files) : heap'[files[i]] = heap[files[i]]
        /\ result'.status = "resolved" =>
              /\ Len(result'.enrichedFiles) = Len(files)
              /\ \A i \in 1..Len(files) :
                    LET e == result'.enrichedFiles[i]
                    IN  /\ \A j \in 1..Len(files) : e # files[j]
                        /\ Without(heap'[e], {"base64Data"})
                              = Without(heap'[files[i]], {"base64Data"})
                        /\ TruthyStr(heap'[files[i]], "base64Data") =>
                              heap'[e].base64Data = heap'[files[i]].base64Data
                        /\ tasks'[i].part = NoPart /\ Has(heap'[e], "base64Data") =>
                              /\ Has(heap'[files[i]], "base64Data")
                              /\ heap'[e].base64Data = heap'[files[i]].base64Data ]_vars

\* C6 witness: a conversion produced base64 data for a file that had none, and
\* another file produced no content part
C6_Witness ==
    /\ result.status = "resolved"
    /\ \E i, j \in 1..Len(files) :
          /\ ~Has(InFile(i), "base64Data") /\ Converted(i)
          /\ TruthyStr(heap[result.enrichedFiles[i]], "base64Data")
          /\ tasks[j].part = NoPart

\* C7: an eligible image file (active, not processing, no error, supported image
\* type, no fileUri) that already has non-empty base64Data starts no rawFile read
\* and no blob fetch, and its inlineData part carries exactly that base64Data;
\* one without base64Data starts the rawFile read when it has a rawFile, and
\* starts the blob fetch only when it has no rawFile and its dataUrl starts
\* with "blob:".
C7_ConvertsOnlyWhenNeeded ==
    pc \in {"awaiting", "buildReturned"} =>
        \A i \in 1..Len(files) :
            Ready(InFile(i)) /\ IsImage(InFile(i)) /\ ~TruthyStr(InFile(i), "fileUri") =>
                IF TruthyStr(InFile(i), "base64Data")
                THEN /\ \A op \in {"readRawFile", "fetch", "readBlob"} : ~Called(i, op)
                     /\ tasks[i].part = InlineDataPart(InFile(i).type, InFile(i).base64Data)
                ELSE /\ Has(InFile(i), "rawFile") => Called(i, "readRawFile")
                     /\ Called(i, "fetch") => ~Has(InFile(i), "rawFile") /\ IsBlobUrl(InFile(i))

\* C7 witness: the call returned for an eligible image that carries base64Data
\* together with a rawFile and a blob: dataUrl
C7_Witness ==
    /\ pc = "buildReturned"
    /\ \E i \in 1..Len(files) :
          /\ Ready(InFile(i)) /\ IsImage(InFile(i)) /\ ~TruthyStr(InFile(i), "fileUri")
          /\ TruthyStr(InFile(i), "base64Data")
          /\ Has(InFile(i), "rawFile") /\ IsBlobUrl(InFile(i))
          /\ tasks[i].part.kind = "inlineData"

\* the content part a file is due, from the input file and its enriched copy
ExpectedPart(i) ==
    IF ~Ready(InFile(i)) THEN NoPart
    ELSE IF IsImage(InFile(i)) /\ ~TruthyStr(InFile(i), "fileUri")
    THEN IF TruthyStr(OutFile(i), "base64Data")
         THEN InlineDataPart(InFile(i).type, OutFile(i).base64Data)
         ELSE NoPart
    ELSE IF TruthyStr(InFile(i), "fileUri")
    THEN FileDataPart(InFile(i).type, InFile(i).fileUri)
    ELSE NoPart

\* the parts that are not null, in order
NotNull(parts) == SelectSeq(parts, LAMBDA p : p # NoPart)

ExpectedText == IF Trim(text) = << >> THEN << >> ELSE <<TextPart(Trim(text))>>

\* C8: the result does not depend on the order in which the conversions
\* complete: whenever the promise is resolved every conversion has settled,
\* contentParts is the trimmed text part (if the trimmed text is not empty)
\* followed by the data parts in the order of their files, and enrichedFiles
\* is in input order.
C8_ResultInInputOrder ==
    result.status = "resolved" =>
        /\ \A i \in 1..Len(files) : tasks[i].pc = "done"
        /\ result.contentParts = ExpectedText \o NotNull([i \in 1..Len(files) |-> ExpectedPart(i)])
        /\ Len(result.enrichedFiles) = Len(files)
        /\ \A i \in 1..Len(files) :
              Without(heap[result.enrichedFiles[i]], {"base64Data"})
                  = Without(InFile(i), {"base64Data"})

\* C8 witness: two conversions completed in the reverse of the input order (the
\* log shows it) and the result holds the text part and a data part
C8_Witness ==
    /\ result.status = "resolved"
    /\ Len(result.contentParts) >= 2
    /\ result.contentParts[1].kind = "text"
    /\ Len(log) >= 2
    /\ \E i, j \in 1..Len(files) :
          /\ i < j
          /\ InFile(i).name # InFile(j).name
          /\ log[1].name = InFile(j).name /\ log[2].name = InFile(i).name

FailedPartOr(i) == IF tasks[i].err THEN NoPart ELSE ExpectedPart(i)

\* C9: a failed conversion never makes buildContentParts reject: the promise is
\* never rejected; each failure is logged once, the file contributes no part
\* and its enriched copy is left as the input file; the other files' parts are
\* what they are due; and once every conversion has settled, failed or not,
\* the promise can resolve.
C9_FailureIsContained ==
    /\ result.status # "rejected"
    /\ pc \in {"awaiting", "buildReturned"} =>
          /\ Cardinality({i \in 1..Len(files) : tasks[i].err}) = Len(log)
          /\ \A i \in 1..Len(files) :
                tasks[i].err =>
                    /\ tasks[i].pc = "done"
                    /\ tasks[i].part = NoPart
                    /\ OutFile(i) = InFile(i)
                    /\ \E k \in 1..Len(log) :
                          log[k].level = "error" /\ log[k].name = InFile(i).name
    /\ result.status = "resolved" =>
          result.contentParts = ExpectedText \o NotNull([i \in 1..Len(files) |-> FailedPartOr(i)])
    /\ pc = "awaiting" /\ (\A i \in 1..Len(files) : tasks[i].pc = "done") => ENABLED Returns

\* C9 witness: the promise resolved although one conversion failed, and another
\* file's conversion produced its part
C9_Witness ==
    /\ result.status = "resolved"
    /\ \E i, j \in 1..Len(files) :
          /\ tasks[i].err /\ Called(i, "fetch")
          /\ Converted(j)
          /\ Contains(result.contentParts,
                      InlineDataPart(InFile(j).type, OutFile(j).base64Data))

-----------------------------------------------------------------------------
(* generateSessionTitle *)

\* str.split(/\s+/): the pieces of str between its maximal runs of white space
RECURSIVE SplitSpaces(_)
SplitSpaces(str) ==
    IF \A i \in 1..Len(str) : ~IsSpace(str[i]) THEN <<str>>
    ELSE LET i == CHOOSE j \in 1..Len(str) :
                      IsSpace(str[j]) /\ \A k \in 1..(j - 1) : ~IsSpace(str[k])
             e == CHOOSE j \in i..Len(str) :
                      /\ \A k \in i..j : IsSpace(str[k])
                      /\ j = Len(str) \/ ~IsSpace(str[j + 1])
         IN  <<SubSeq(str, 1, i - 1)>> \o SplitSpaces(SubSeq(str, e + 1, Len(str)))

\* pieces.join(' ')
RECURSIVE Join(_)
Join(pieces) ==
    IF pieces = << >> THEN << >>
    ELSE IF Len(pieces) = 1 THEN pieces[1]
    ELSE pieces[1] \o <<" ">> \o Join(Tail(pieces))

UserTitleWords == 7
ModelTitleWords == 5

\* content.split(/\s+/).slice(0, n).join(' ') + (more than n pieces ? '...' : '')
Shorten(content, n) ==
    LET pieces == SplitSpaces(content)
    IN  Join(SubSeq(pieces, 1, IF Len(pieces) < n THEN Len(pieces) ELSE n))
            \o (IF Len(pieces) > n THEN <<".", ".", ".">> ELSE << >>)

\* Array.prototype.find over the outcomes of the predicate (hits[i] for element
\* i): the index of the first element that satisfies it, 0 if none
Find(hits) ==
    IF \E i \in 1..Len(hits) : hits[i]
    THEN CHOOSE i \in 1..Len(hits) : hits[i] /\ \A k \in 1..(i - 1) : ~hits[k]
    ELSE 0

IsUserText(msg) == msg.role = "user" /\ Trim(msg.content) # << >>
IsModelText(msg) == msg.role = "model" /\ Trim(msg.content) # << >>
HasFiles(msg) == Has(msg, "files") /\ Len(msg.files) > 0

ModelPrefix == <<"M", "o", "d", "e", "l", ":", " ">>
ChatWithPrefix == <<"C", "h", "a", "t", " ", "w", "i", "t", "h", " ">>
NewChat == <<"N", "e", "w", " ", "C", "h", "a", "t">>

\* (variant: model messages looked at before user messages)
SessionTitleModelFirst(msgs) ==
    LET firstUserMessage == Find([i \in 1..Len(msgs) |-> IsUserText(msgs[i])])
        firstModelMessage == Find([i \in 1..Len(msgs) |-> IsModelText(msgs[i])])
        withFiles == Find([i \in 1..Len(msgs) |-> HasFiles(msgs[i])])
    IN  IF firstModelMessage # 0
        THEN ModelPrefix \o Shorten(msgs[firstModelMessage].content, ModelTitleWords)
        ELSE IF firstUserMessage # 0
        THEN Shorten(msgs[firstUserMessage].content, UserTitleWords)
        ELSE IF withFiles # 0
        THEN ChatWithPrefix \o msgs[withFiles].files[1].name
        ELSE NewChat
SessionTitle(msgs) ==
    LET firstUserMessage == Find([i \in 1..Len(msgs) |-> IsUserText(msgs[i])])
        firstModelMessage == Find([i \in 1..Len(msgs) |-> IsModelText(msgs[i])])
        withFiles == Find([i \in 1..Len(msgs) |-> HasFiles(msgs[i])])
    IN  IF firstUserMessage # 0
        THEN Shorten(msgs[firstUserMessage].content, UserTitleWords)
        ELSE IF firstModelMessage # 0
        THEN ModelPrefix \o Shorten(msgs[firstModelMessage].content, ModelTitleWords)
        ELSE IF withFiles # 0
        THEN ChatWithPrefix \o msgs[withFiles].files[1].name
        ELSE NewChat

GenerateSessionTitle ==
    /\ pc = "title"
    /\ title' = SessionTitle(messages)
    /\ pc' = "titled"
    /\ UNCHANGED <<messages, heap, log, policyVars, buildVars>>

-----------------------------------------------------------------------------
(* Inputs of generateSessionTitle *)

Words6 == <<"a", " ", "b", " ", "c", " ", "d", " ", "e", " ", "f">>
Words8 == <<"s", " ", "t", "\n", "u", " ", "v", " ", "w", " ", "x", "\t", " ", "y", " ", "z">>

Contents == {<< >>, <<" ", "\n">>, <<" ", "h", "i", " ">>, Words6, Words8}

Attachment(name) == [name |-> name, type |-> "image/png", uploadState |-> "active"]

TitleMessages ==
    { Merge([role |-> r, content |-> c], fs) :
        r \in {"user", "model", "error"},
        c \in Contents,
        fs \in Flag("files", { << >>, <<Attachment(<<"p">>)>>,
                               <<Attachment(<<"q">>), Attachment(<<"p">>)>> }) }

InitTitle ==
    /\ pc = "title"
    /\ \E n \in 0..MaxTitleMessages : messages \in [1..n -> TitleMessages]
    /\ title = << >>
    /\ heap = << >> /\ log = << >>
    /\ sessions = << >> /\ returned = << >>
    /\ text = << >> /\ files = << >> /\ tasks = << >> /\ calls = {}
    /\ result = [status |-> "none"]

NextTitle == GenerateSessionTitle

SpecTitle == InitTitle /\ [][NextTitle]_vars

-----------------------------------------------------------------------------
(* Claims about generateSessionTitle *)

NonBlank(str) == \E i \in 1..Len(str) : str[i] \notin {" ", "\n", "\t"}

UserTexts == {i \in 1..Len(messages) :
                messages[i].role = "user" /\ NonBlank(messages[i].content)}
ModelTexts == {i \in 1..Len(messages) :
                messages[i].role = "model" /\ NonBlank(messages[i].content)}
FileBearers == {i \in 1..Len(messages) :
                  Has(messages[i], "files") /\ messages[i].files # << >>}

Least(S) == CHOOSE i \in S : \A j \in S : i <= j

\* C10: the title source is chosen by strict priority over the whole list: the
\* first user message with non-blank content if there is one, wherever it
\* stands; otherwise "Model: " plus the text of the first model message with
\* non-blank content; otherwise "Chat with " plus the name of the first file of
\* the first message that has files; otherwise "New Chat".
C10_TitleByPriority ==
    pc = "titled" =>
        title = IF UserTexts # {}
                THEN Shorten(messages[Least(UserTexts)].content, UserTitleWords)
                ELSE IF ModelTexts # {}
                THEN ModelPrefix
                        \o Shorten(messages[Least(ModelTexts)].content, ModelTitleWords)
                ELSE IF FileBearers # {}
                THEN ChatWithPrefix \o messages[Least(FileBearers)].files[1].name
                ELSE NewChat

\* C10 witness: a user message with non-blank content gives the title although
\* a model message with text and files precedes it, and another user message
\* with different text follows it
C10_Witness ==
    /\ pc = "titled"
    /\ Len(messages) >= 2
    /\ messages[1].role = "model" /\ NonBlank(messages[1].content)
    /\ Has(messages[1], "files") /\ messages[1].files # << >>
    /\ messages[2].role = "user" /\ NonBlank(messages[2].content)
    /\ title = Shorten(messages[2].content, UserTitleWords)
    /\ title # ModelPrefix \o Shorten(messages[1].content, ModelTitleWords)

====
